---- MODULE Spec2Model ----
(***************************************************************************)
(* Model of c-abi-libp2p/examples/cpp/ping.cpp: a host process that loads  *)
(* the cabi_rust_libp2p shared library, resolves its five entry points     *)
(* into a CabiRustLibp2p table (loadAbi) and tears the library down (main).*)
(*                                                                         *)
(* Pointers are naturals, 0 is the null pointer.  The library on disk is   *)
(* the environment: whether it can be loaded and which symbols it exports. *)
(* Every call that crosses the boundary (LOAD_LIB, GET_PROC, an entry      *)
(* point of the table, CLOSE_LIB) is logged in `trace`, every line written *)
(* to std::cerr in `cerrOut`.                                              *)
(***************************************************************************)
EXTENDS Integers, Sequences, FiniteSets, TLC

VARIABLES pc, lib, exports, abi, valid, trace, cerrOut, exitCode

vars == <<pc, lib, exports, abi, valid, trace, cerrOut, exitCode>>

\* Largest stale (non-null, not from this library) pointer value a table
\* handed to loadAbi may hold before the call.
MaxStale == 1

----------------------------------------------------------------------------
\* The table CabiRustLibp2p and the symbols it is filled from

\* The five members of struct CabiRustLibp2p, in declaration order.
Fields == <<"InitTracing", "NewNode", "ListenNode", "DialNode", "FreeNode">>

FieldSet == {Fields[i] : i \in 1..Len(Fields)}

\* The symbol names loadAbi looks up, in the order of its five statements.
SymbolNames == <<"cabi_init_tracing", "cabi_node_new", "cabi_node_listen",
                 "cabi_node_dial", "cabi_node_free">>

SymbolSet == {SymbolNames[i] : i \in 1..Len(SymbolNames)}

\* struct CabiRustLibp2p after default member initialisation ({}): all null.
CabiRustLibp2p == [f \in FieldSet |-> 0]

\* LOAD_LIB(LIB_NAME): a non-null handle when the library can be loaded,
\* the null handle otherwise.
LOAD_LIB(present) == IF present THEN 1 ELSE 0

\* The address the loaded library has for an exported symbol (non-null,
\* distinct per symbol).
ProcAddr(name) == 16 * (CHOOSE i \in 1..Len(SymbolNames) : SymbolNames[i] = name)

\* GET_PROC(lib, name): the symbol's address if the library exports it,
\* null if it does not.
GET_PROC(E, name) == IF name \in E THEN ProcAddr(name) ELSE 0

\* The boundary event of one lookup.
LookupEvent(name) == <<"GET_PROC", name>>

\* Mutant: the aggregate is an OR of the five pointers.
AbiValidAny(t) == \E f \in FieldSet : t[f] # 0

\* The return expression of loadAbi: the conjunction of the five pointers,
\* each converted to bool (non-null).
AbiValid(t) ==
    (t["InitTracing"] # 0) /\ (t["NewNode"] # 0) /\ (t["ListenNode"] # 0)
        /\ (t["DialNode"] # 0) /\ (t["FreeNode"] # 0)

\* Mutant: resolution stops at the first lookup that returns null, leaving
\* the remaining members as they were.
RECURSIVE ShortCircuitFrom(_, _, _, _)
ShortCircuitFrom(i, E, t, looked) ==
    IF i > Len(Fields) THEN [abi |-> t, ret |-> TRUE, lookups |-> looked]
    ELSE LET p == GET_PROC(E, SymbolNames[i])
             t2 == [t EXCEPT ![Fields[i]] = p]
             l2 == Append(looked, LookupEvent(SymbolNames[i]))
         IN IF p = 0 THEN [abi |-> t2, ret |-> FALSE, lookups |-> l2]
            ELSE ShortCircuitFrom(i + 1, E, t2, l2)

loadAbiShortCircuit(E, prior) == ShortCircuitFrom(1, E, prior, << >>)

\* bool loadAbi(LibHandle lib, CabiRustLibp2p& abi): five assignments in
\* sequence, then the aggregate.  Yields the table left in `abi`, the value
\* returned and the lookups performed, in order.
loadAbi(E, prior) ==
    LET t1 == [prior EXCEPT !["InitTracing"] = GET_PROC(E, "cabi_init_tracing")]
        t2 == [t1 EXCEPT !["NewNode"] = GET_PROC(E, "cabi_node_new")]
        t3 == [t2 EXCEPT !["ListenNode"] = GET_PROC(E, "cabi_node_listen")]
        t4 == [t3 EXCEPT !["DialNode"] = GET_PROC(E, "cabi_node_dial")]
        t5 == [t4 EXCEPT !["FreeNode"] = GET_PROC(E, "cabi_node_free")]
    IN [abi |-> t5,
        ret |-> AbiValid(t5),
        lookups |-> <<LookupEvent("cabi_init_tracing"),
                      LookupEvent("cabi_node_new"),
                      LookupEvent("cabi_node_listen"),
                      LookupEvent("cabi_node_dial"),
                      LookupEvent("cabi_node_free")>>]

----------------------------------------------------------------------------
\* The pieces of main

\* Mutant: the null check on the handle is inverted.
LoadFailedInverted(h) == h # 0

\* if (!lib)
LoadFailed(h) == h = 0

\* return 1; on the load-failure path
ExitLoadFailure == 1

\* Mutant: the final return repeats the failure path's return value.
ExitNormalOne == ExitLoadFailure

\* return 0; at the end of main
ExitNormal == 0

\* if (loadAbi(lib, abi)): the branch that prints is taken when the call
\* returned true.
ReportBranchTaken(ret) == ret

MsgLoadError == "Error on loading Lib:"

MsgMissing == "Missing required functions in library"

\* Mutant: the entry points are used without looking at the table's
\* validity and the node is never freed.
EntryPointCallsUnguarded(t, ok) == <<<<"CALL", "InitTracing">>, <<"CALL", "NewNode">>>>

\* The entry points of the table main invokes between the validity check
\* and the release of the library: none (the section under the comment
\* "Try init cabi's tracing" is empty).
EntryPointCalls(t, ok) == << >>

\* Mutant: the library is never released.
ReleaseNever(h) == << >>

\* CLOSE_LIB(lib);
Release(h) == <<<<"CLOSE_LIB", "">>>>

----------------------------------------------------------------------------
\* main, step by step

Init ==
    /\ pc = "load"
    /\ lib = 0
    /\ exports = {}
    /\ abi = CabiRustLibp2p
    /\ valid = FALSE
    /\ trace = << >>
    /\ cerrOut = << >>
    /\ exitCode = -1

\* LibHandle lib = LOAD_LIB(LIB_NAME);  The environment decides whether the
\* library is there and what it exports.
LoadLib ==
    /\ pc = "load"
    /\ \E present \in BOOLEAN, E \in SUBSET SymbolSet :
          /\ lib' = LOAD_LIB(present)
          /\ exports' = IF present THEN E ELSE {}
    /\ trace' = Append(trace, <<"LOAD_LIB", "">>)
    /\ pc' = "check_lib"
    /\ UNCHANGED <<abi, valid, cerrOut, exitCode>>

\* if (!lib) { cerr << "Error on loading Lib:" ...; return 1; }
ReportLoadError ==
    /\ pc = "check_lib"
    /\ LoadFailed(lib)
    /\ cerrOut' = Append(cerrOut, MsgLoadError)
    /\ exitCode' = ExitLoadFailure
    /\ pc' = "done"
    /\ UNCHANGED <<lib, exports, abi, valid, trace>>

\* The handle is non-null: CabiRustLibp2p abi;
DeclareAbi ==
    /\ pc = "check_lib"
    /\ ~LoadFailed(lib)
    /\ abi' = CabiRustLibp2p
    /\ pc' = "call_loadAbi"
    /\ UNCHANGED <<lib, exports, valid, trace, cerrOut, exitCode>>

\* loadAbi(lib, abi), evaluated as the condition of the if statement.
CallLoadAbi ==
    /\ pc = "call_loadAbi"
    /\ LET r == loadAbi(exports, abi)
       IN /\ abi' = r.abi
          /\ valid' = r.ret
          /\ trace' = trace \o r.lookups
    /\ pc' = "branch"
    /\ UNCHANGED <<lib, exports, cerrOut, exitCode>>

\* { cerr << "Missing required functions in library \n"; }
ReportMissing ==
    /\ pc = "branch"
    /\ ReportBranchTaken(valid)
    /\ cerrOut' = Append(cerrOut, MsgMissing)
    /\ pc' = "teardown"
    /\ UNCHANGED <<lib, exports, abi, valid, trace, exitCode>>

\* The if body is skipped.
SkipReport ==
    /\ pc = "branch"
    /\ ~ReportBranchTaken(valid)
    /\ pc' = "teardown"
    /\ UNCHANGED <<lib, exports, abi, valid, trace, cerrOut, exitCode>>

\* The section after the check, then CLOSE_LIB(lib);
CloseLib ==
    /\ pc = "teardown"
    /\ trace' = trace \o EntryPointCalls(abi, valid) \o Release(lib)
    /\ pc' = "return"
    /\ UNCHANGED <<lib, exports, abi, valid, cerrOut, exitCode>>

\* return 0;
Return ==
    /\ pc = "return"
    /\ exitCode' = ExitNormal
    /\ pc' = "done"
    /\ UNCHANGED <<lib, exports, abi, valid, trace, cerrOut>>

Next ==
    \/ LoadLib
    \/ ReportLoadError
    \/ DeclareAbi
    \/ CallLoadAbi
    \/ ReportMissing
    \/ SkipReport
    \/ CloseLib
    \/ Return

Spec == Init /\ [][Next]_vars

\* main is a sequential program: the step it is at is always taken.
FairSpec == Spec /\ WF_vars(Next)

----------------------------------------------------------------------------
\* loadAbi on its own: any library, any table passed in

InitAbi ==
    /\ pc = "call_loadAbi"
    /\ lib = LOAD_LIB(TRUE)
    /\ exports \in SUBSET SymbolSet
    /\ abi \in [FieldSet -> 0..MaxStale]
    /\ valid = FALSE
    /\ trace = << >>
    /\ cerrOut = << >>
    /\ exitCode = -1

NextAbi == CallLoadAbi

SpecAbi == InitAbi /\ [][NextAbi]_vars

----------------------------------------------------------------------------
\* Properties

\* Number of positions of sequence q whose element is e.
Count(q, e) == Cardinality({i \in 1..Len(q) : q[i] = e})

\* The positions of the trace at which an entry point of the table is invoked.
CallPositions == {i \in 1..Len(trace) : trace[i][1] = "CALL"}

\* The positions of the trace at which the library is released.
ClosePositions == {i \in 1..Len(trace) : trace[i][1] = "CLOSE_LIB"}

\* The positions of the trace at which a symbol is looked up.
LookupPositions == {i \in 1..Len(trace) : trace[i][1] = "GET_PROC"}

\* loadAbi has returned.
AfterLoadAbi == lib # 0 /\ pc \in {"branch", "teardown", "return", "done"}

\* The library exports all five required symbols.
AllExported == SymbolSet \subseteq exports

\* C1: the value loadAbi returns is true exactly when the library exports
\* all five required symbols; with any one of them missing it is false.
C1_ValidIffAllResolved == AfterLoadAbi => (valid <=> AllExported)

C1_Witness ==
    /\ AfterLoadAbi
    /\ ~valid
    /\ Cardinality(exports) = 4
    /\ Len(trace) >= 6

\* C2: once main is past the validity check of a loaded library, the
\* "Missing required functions" line has been written exactly once if the
\* table is invalid and not at all if all five symbols resolved.
C2_MissingReportedIffInvalid ==
    (pc \in {"teardown", "return", "done"} /\ lib # 0)
        => Count(cerrOut, MsgMissing) = (IF AllExported THEN 0 ELSE 1)

\* C3: when the load returns the null handle, main ends having written the
\* load error once, with a non-zero exit code, no symbol lookup and no
\* release of the library.
C3_LoadFailureIsFatal ==
    (pc = "done" /\ lib = 0)
        => /\ cerrOut = <<MsgLoadError>>
           /\ exitCode # 0
           /\ LookupPositions = {}
           /\ ClosePositions = {}

C3_Witness == pc = "done" /\ lib = 0 /\ trace = <<<<"LOAD_LIB", "">>>>

\* C4: when the library loads and at least one symbol is missing, main
\* ends with the library released and a non-zero exit code.
C4_InvalidReleasesAndFails ==
    (pc = "done" /\ lib # 0 /\ ~AllExported)
        => /\ ClosePositions # {}
           /\ exitCode # 0

\* C5: the library is never released more than once, never released after a
\* failed load, and at exit it has been released exactly once if the load
\* succeeded, also when the table is incomplete.
C5_ReleasedOncePerLoad ==
    /\ Cardinality(ClosePositions) <= (IF lib # 0 THEN 1 ELSE 0)
    /\ pc = "done" => Cardinality(ClosePositions) = (IF lib # 0 THEN 1 ELSE 0)

C5_Witness ==
    /\ pc = "done"
    /\ lib # 0
    /\ ~AllExported
    /\ Cardinality(ClosePositions) = 1

\* The calls of entry points in the trace, in order.
RECURSIVE CallsOf(_)
CallsOf(q) ==
    IF q = << >> THEN << >>
    ELSE IF Head(q)[1] = "CALL" THEN <<Head(q)[2]>> \o CallsOf(Tail(q))
         ELSE CallsOf(Tail(q))

\* C6: when the library loads and all five symbols resolve, main ends
\* having called InitTracing, then NewNode, then listen/dial operations,
\* then FreeNode, then released the library, and exits 0.
C6_FullLifecycle ==
    (pc = "done" /\ lib # 0 /\ AllExported)
        => LET c == CallsOf(trace)
           IN /\ Len(c) >= 4
              /\ c[1] = "InitTracing"
              /\ c[2] = "NewNode"
              /\ \A i \in 3..(Len(c) - 1) : c[i] \in {"ListenNode", "DialNode"}
              /\ c[Len(c)] = "FreeNode"
              /\ trace[Len(trace)][1] = "CLOSE_LIB"
              /\ exitCode = 0

\* C7: no entry point of the table is invoked after the library has been
\* released, nor when the load failed, nor when the table is invalid.
C7_NoCallOutsideValidLibrary ==
    \A i \in CallPositions :
        /\ lib # 0
        /\ valid
        /\ \A j \in ClosePositions : i < j

C7_Witness ==
    /\ pc = "done"
    /\ lib # 0
    /\ ~valid
    /\ ClosePositions # {}
    /\ CallPositions = {}

\* C8: at exit the number of FreeNode calls equals the number of NewNode
\* calls, and every FreeNode call precedes the release of the library.
C8_NodesFreedBeforeRelease ==
    pc = "done"
        => /\ Count(trace, <<"CALL", "FreeNode">>) = Count(trace, <<"CALL", "NewNode">>)
           /\ \A i \in 1..Len(trace) : \A j \in ClosePositions :
                 trace[i] = <<"CALL", "FreeNode">> => i < j

C8_Witness ==
    /\ pc = "done"
    /\ lib # 0
    /\ valid
    /\ ClosePositions # {}
    /\ Count(trace, <<"CALL", "NewNode">>) = 0

\* C9: when loadAbi returns, the last five boundary calls are the five
\* lookups in the fixed order, every member of the table holds what the
\* library has for its symbol (null included) whatever the table held
\* before, and the value returned depends on the exported symbols only.
C9_AllFiveLookedUpAndOverwritten ==
    pc = "branch"
        => /\ Len(trace) >= 5
           /\ SubSeq(trace, Len(trace) - 4, Len(trace))
                = [i \in 1..5 |-> <<"GET_PROC", SymbolNames[i]>>]
           /\ \A i \in 1..5 :
                 abi[Fields[i]] = (IF SymbolNames[i] \in exports
                                   THEN ProcAddr(SymbolNames[i]) ELSE 0)
           /\ valid <=> AllExported

C9_Witness ==
    /\ pc = "branch"
    /\ "cabi_init_tracing" \notin exports
    /\ "cabi_node_free" \in exports
    /\ abi["InitTracing"] = 0
    /\ abi["FreeNode"] # 0
    /\ Len(trace) = 5

\* C10: main terminates, and its exit code is 1 if the load returned the
\* null handle and 0 otherwise, whichever symbols resolved.
C10_TerminatesExitByLoad ==
    /\ <>(pc = "done")
    /\ [](pc = "done" => exitCode = (IF lib = 0 THEN 1 ELSE 0))

C10_Witness == pc = "done" /\ lib # 0 /\ ~AllExported /\ exitCode = 0

====
